---- MODULE Spec2Model ----
(***************************************************************************)
(* Model of rlattice: the modular Element, the ring Polynomial over        *)
(* Z_A[x]/(x^N+1), and the BFV schemes built on them (public-key           *)
(* bfv_pke.rs, symmetric-key bfv_ske.rs).                                  *)
(*                                                                         *)
(* An Element<A> is modelled by its stored `value` (a u64); a              *)
(* Polynomial<N, A> by the sequence of its N stored values, coefficient i  *)
(* of the source at position i+1.  The const generics A, Q, T of the       *)
(* source are the first parameter(s) of the operators.                     *)
(***************************************************************************)
EXTENDS Integers, Sequences, FiniteSets, TLC

VARIABLES
    \* Element machine
    modA, x, y, e_op, z,
    \* Polynomial machine
    ringA, p_x, p_y, p_z, law, lhs, rhs,
    \* BFV machine (test_bfv_add_* and the plaintext multiply)
    prm, pc, sk, pk, m_a, m_b, enc_a, enc_b, enc_3, pt, dec,
    \* how many ciphertexts were added into enc_3
    n_adds,
    \* Pasta machine (pasta_plain.rs)
    pasta, plaintext, ciphertext, decrypted, calls

elemVars == <<modA, x, y, e_op, z>>
ringVars == <<ringA, p_x, p_y, p_z, law, lhs, rhs>>
bfvVars  == <<prm, pc, sk, pk, m_a, m_b, enc_a, enc_b, enc_3, pt, dec>>
accVars  == <<n_adds>>
pastaVars == <<pasta, plaintext, ciphertext, decrypted, calls>>
vars     == <<elemVars, ringVars, bfvVars, accVars, pastaVars>>

---------------------------------------------------------------------------
(* Rust integer primitives *)

\* i64 `%`: the remainder truncates toward zero and takes the dividend's sign
RustRem(v, a) == IF v >= 0 THEN v % a ELSE -((-v) % a)

\* u64::div_ceil
div_ceil(a, b) == (a + b - 1) \div b

\* u64::ilog2
RECURSIVE ilog2(_)
ilog2(a) == IF a < 2 THEN 0 ELSE 1 + ilog2(a \div 2)

RECURSIVE Pow2(_)
Pow2(k) == IF k = 0 THEN 1 ELSE 2 * Pow2(k - 1)

---------------------------------------------------------------------------
(* Element<A> *)

\* mutant: the remainder alone, without the shift into the non-negative range
balanced_rem_only(A, v) == RustRem(v, A)

\* Element::balanced
balanced(A, v) == RustRem(RustRem(v, A) + A, A)

\* Element::new
Element_new(A, v) == balanced(A, v)

\* mutant: the sum is stored without reduction
Element_add_unreduced(A, a, b) == a + b

\* impl Add for Element
Element_add(A, a, b) == balanced(A, a + b)

\* impl Sub for Element
Element_sub(A, a, b) == balanced(A, a - b)

\* mutant: the operand is returned unnegated
Element_neg_identity(A, a) == Element_new(A, a)

\* impl Neg for Element
Element_neg(A, a) == Element_new(A, -a)

\* impl Mul for Element
Element_mul(A, a, b) == balanced(A, a * b)

---------------------------------------------------------------------------
(* Polynomial<N, A> *)

\* [Element::<A>::new(0); N]
ZeroPoly(A, n) == [i \in 1..n |-> Element_new(A, 0)]

\* impl Add for Polynomial
Polynomial_add(A, p, q) == [i \in 1..Len(p) |-> Element_add(A, p[i], q[i])]

\* impl Neg for Polynomial
Polynomial_neg(A, p) == [i \in 1..Len(p) |-> Element_neg(A, p[i])]

\* impl Mul<Element<A>> for Polynomial
Polynomial_mul_elem(A, p, c) == [i \in 1..Len(p) |-> Element_mul(A, p[i], c)]

\* mutant: the wrapped products are added instead of subtracted (x^N = +1)
MulStep_cyclic(A, out, p, q, i, j) ==
    LET n    == Len(p)
        prod == Element_mul(A, p[i + 1], q[j + 1])
        k    == i + j
    IN  IF k < n
        THEN [out EXCEPT ![k + 1] = Element_add(A, out[k + 1], prod)]
        ELSE [out EXCEPT ![k - n + 1] = Element_add(A, out[k - n + 1], prod)]

\* one iteration (i, j) of the double loop of Polynomial * Polynomial
MulStep(A, out, p, q, i, j) ==
    LET n    == Len(p)
        prod == Element_mul(A, p[i + 1], q[j + 1])
        k    == i + j
    IN  IF k < n
        THEN [out EXCEPT ![k + 1] = Element_add(A, out[k + 1], prod)]
        ELSE [out EXCEPT ![k - n + 1] = Element_sub(A, out[k - n + 1], prod)]

\* the double loop, iteration idx = i*N + j, in the source's order
RECURSIVE MulLoop(_, _, _, _, _)
MulLoop(A, out, p, q, idx) ==
    LET n == Len(p)
    IN  IF idx = n * n THEN out
        ELSE MulLoop(A, MulStep(A, out, p, q, idx \div n, idx % n), p, q, idx + 1)

\* impl Mul<Polynomial<N, A>> for Polynomial
Polynomial_mul(A, p, q) == MulLoop(A, ZeroPoly(A, Len(p)), p, q, 0)

\* mutant: the stored value is copied without Element::new
lift_unreduced(B, p) == [i \in 1..Len(p) |-> p[i]]

\* mutant: the coefficients are read from the far end
lift_reversed(B, p) == [i \in 1..Len(p) |-> Element_new(B, p[Len(p) + 1 - i])]

\* Polynomial::lift::<B>
lift(B, p) == [i \in 1..Len(p) |-> Element_new(B, p[i])]

\* u16::BITS
U16_BITS == 16

\* value >> k on a u64
RECURSIVE Shr(_, _)
Shr(value, k) == IF k = 0 \/ value = 0 THEN value ELSE Shr(value \div 2, k - 1)

\* Polynomial::<N, A>::from_int_scaled, n the ring dimension N
from_int_scaled(n, A, int, delta) ==
    [i \in 1..n |->
        IF i - 1 < U16_BITS
        THEN Element_new(A, (Shr(int, i - 1) % 2) * delta)
        ELSE Element_new(A, 0)]

\* u64_msb
u64_msb(value, len) == (value \div Pow2(len - 1)) % 2

\* Polynomial::msb
msb(A, p) == [i \in 1..Len(p) |-> Element_new(2, u64_msb(p[i], ilog2(A)))]

\* Polynomial::rand: what one coefficient can be, Element::new of Uniform::new(0, A)
rand_support(A) == {Element_new(A, r) : r \in 0..(A - 1)}

\* mutant: the error is drawn from -1..=1
ternary_error_signed(A) == {Element_new(A, r) : r \in -1..1}

\* Polynomial::ternary_error: what one coefficient can be, random_range(0..=1)
ternary_error_support(A) == {Element_new(A, r) : r \in 0..1}

---------------------------------------------------------------------------
(* Idle values of the machines: a specification drives one machine and     *)
(* leaves the others at these values.                                      *)

IdleElem == modA = 2 /\ x = 0 /\ y = 0 /\ e_op = "idle" /\ z = 0

IdleRing ==
    /\ ringA = 2 /\ p_x = <<>> /\ p_y = <<>> /\ p_z = <<>>
    /\ law = "idle" /\ lhs = <<>> /\ rhs = <<>>

NoCipher == [c_1 |-> <<>>, c_2 |-> <<>>]

IdleBfv ==
    /\ prm = [Q |-> 2, T |-> 2] /\ pc = "idle"
    /\ sk = <<>> /\ pk = <<>> /\ m_a = <<>> /\ m_b = <<>>
    /\ enc_a = NoCipher /\ enc_b = NoCipher /\ enc_3 = NoCipher
    /\ pt = <<>> /\ dec = <<>>
    /\ n_adds = 0

NoPasta == [key |-> <<>>, p |-> 2, mask |-> 0, shake |-> <<>>]

IdlePasta ==
    /\ pasta = NoPasta /\ plaintext = <<>> /\ ciphertext = <<>>
    /\ decrypted = <<>> /\ calls = "idle"

---------------------------------------------------------------------------
(* Element machine: Element::new on two integers, then one operator, as in *)
(* tests::test_element_add_and_mul_mod_32 and tests::test_add_and_mul_mod_2 *)

\* integers given to Element::new lie in -MaxAbsInput..MaxAbsInput, or far outside
MaxAbsInput == 20

FarInputs == {-1000, 1000}

ElemInputs == (-MaxAbsInput..MaxAbsInput) \cup FarInputs

\* the moduli of the tests (2, 32) and of the boundary case (17)
ElemModuli == {2, 17, 32}

InitElement ==
    /\ modA \in ElemModuli
    /\ x \in ElemInputs
    /\ y \in ElemInputs
    /\ e_op = "none"
    /\ z = 0
    /\ IdleRing /\ IdleBfv /\ IdlePasta

ElemNew ==
    /\ e_op = "none"
    /\ e_op' = "new"
    /\ z' = Element_new(modA, x)
    /\ UNCHANGED <<modA, x, y, ringVars, bfvVars, accVars, pastaVars>>

ElemAdd ==
    /\ e_op = "none"
    /\ e_op' = "add"
    /\ z' = Element_add(modA, Element_new(modA, x), Element_new(modA, y))
    /\ UNCHANGED <<modA, x, y, ringVars, bfvVars, accVars, pastaVars>>

ElemSub ==
    /\ e_op = "none"
    /\ e_op' = "sub"
    /\ z' = Element_sub(modA, Element_new(modA, x), Element_new(modA, y))
    /\ UNCHANGED <<modA, x, y, ringVars, bfvVars, accVars, pastaVars>>

ElemNeg ==
    /\ e_op = "none"
    /\ e_op' = "neg"
    /\ z' = Element_neg(modA, Element_new(modA, x))
    /\ UNCHANGED <<modA, x, y, ringVars, bfvVars, accVars, pastaVars>>

ElemMul ==
    /\ e_op = "none"
    /\ e_op' = "mul"
    /\ z' = Element_mul(modA, Element_new(modA, x), Element_new(modA, y))
    /\ UNCHANGED <<modA, x, y, ringVars, bfvVars, accVars, pastaVars>>

NextElement == ElemNew \/ ElemAdd \/ ElemSub \/ ElemNeg \/ ElemMul

SpecElement == InitElement /\ [][NextElement]_vars

\* x and y are congruent modulo A (stated without the model's remainder)
Congruent(A, a, b) == \E k \in -(2 * 1000)..(2 * 1000) : a - b = k * A

\* C9: Element::new is a ring homomorphism from the integers onto Z_A:
\* new(x) + new(y) = new(x+y), new(x) - new(y) = new(x-y),
\* new(x) * new(y) = new(x*y), -new(x) = new(-x), and new(x) = new(y)
\* exactly when x and y are congruent modulo A.
C9_ElementNewHomomorphism ==
    /\ (e_op = "add" => z = Element_new(modA, x + y))
    /\ (e_op = "sub" => z = Element_new(modA, x - y))
    /\ (e_op = "mul" => z = Element_new(modA, x * y))
    /\ (e_op = "neg" => z = Element_new(modA, -x))
    /\ (e_op = "new" =>
            /\ Congruent(modA, z, x)
            /\ (z = Element_new(modA, y)) <=> Congruent(modA, x, y))

\* C9 witness: -1000 has been reduced modulo 17 and multiplied by a negative
C9_Witness ==
    e_op = "mul" /\ modA = 17 /\ x = -1000 /\ y = -5 /\ z = 2

---------------------------------------------------------------------------
(* Polynomial machine: three polynomials of one ring, then one ring        *)
(* computation on them.                                                    *)

\* coefficients of the operands lie within MaxRingCoef of 0, from either side
MaxRingCoef == 1

\* the rings <<N, A>> the operands are drawn from
RingShapes == {<<4, 2>>, <<4, 3>>, <<2, 32>>}

RingCoefs(A) == {c \in 0..(A - 1) : c <= MaxRingCoef \/ c >= A - MaxRingCoef}

RingPolys(n, A) == [1..n -> RingCoefs(A)]

\* polynomials with at most one non-zero coefficient
Monomials(n, A) ==
    {p \in RingPolys(n, A) : Cardinality({i \in 1..n : p[i] # 0}) <= 1}

InitRing ==
    /\ \E shape \in RingShapes :
          /\ ringA = shape[2]
          /\ p_x \in RingPolys(shape[1], shape[2])
          /\ p_y \in RingPolys(shape[1], shape[2])
          /\ p_z \in Monomials(shape[1], shape[2])
    /\ law = "none" /\ lhs = <<>> /\ rhs = <<>>
    /\ IdleElem /\ IdleBfv /\ IdlePasta

\* P + Q  and  Q + P
AddCommute ==
    /\ law = "none"
    /\ law' = "commute"
    /\ lhs' = Polynomial_add(ringA, p_x, p_y)
    /\ rhs' = Polynomial_add(ringA, p_y, p_x)
    /\ UNCHANGED <<ringA, p_x, p_y, p_z, elemVars, bfvVars, accVars, pastaVars>>

\* (P + Q) + R  and  P + (Q + R)
AddAssoc ==
    /\ law = "none"
    /\ law' = "assoc"
    /\ lhs' = Polynomial_add(ringA, Polynomial_add(ringA, p_x, p_y), p_z)
    /\ rhs' = Polynomial_add(ringA, p_x, Polynomial_add(ringA, p_y, p_z))
    /\ UNCHANGED <<ringA, p_x, p_y, p_z, elemVars, bfvVars, accVars, pastaVars>>

\* P + 0  and  P
AddZero ==
    /\ law = "none"
    /\ law' = "zero"
    /\ lhs' = Polynomial_add(ringA, p_x, ZeroPoly(ringA, Len(p_x)))
    /\ rhs' = p_x
    /\ UNCHANGED <<ringA, p_x, p_y, p_z, elemVars, bfvVars, accVars, pastaVars>>

\* P * (Q + R)  and  P * Q + P * R
MulDistribute ==
    /\ law = "none"
    /\ law' = "distribute"
    /\ lhs' = Polynomial_mul(ringA, p_x, Polynomial_add(ringA, p_y, p_z))
    /\ rhs' = Polynomial_add(ringA, Polynomial_mul(ringA, p_x, p_y),
                                    Polynomial_mul(ringA, p_x, p_z))
    /\ UNCHANGED <<ringA, p_x, p_y, p_z, elemVars, bfvVars, accVars, pastaVars>>

\* P * Q
Multiply ==
    /\ law = "none"
    /\ law' = "product"
    /\ lhs' = Polynomial_mul(ringA, p_x, p_y)
    /\ rhs' = <<>>
    /\ UNCHANGED <<ringA, p_x, p_y, p_z, elemVars, bfvVars, accVars, pastaVars>>

NextRing == AddCommute \/ AddAssoc \/ AddZero \/ MulDistribute \/ Multiply

SpecRing == InitRing /\ [][NextRing]_vars

\* C7: ring laws of Polynomial<N, A>: P+Q = Q+P, (P+Q)+R = P+(Q+R),
\* P+0 = P, and P*(Q+R) = P*Q + P*R.
C7_RingLaws ==
    law \in {"commute", "assoc", "zero", "distribute"} => lhs = rhs

\* C7 witness: distributivity was computed where products wrap past x^N
\* with a sign that shows (odd modulus) and the sum Q+R wraps past A
C7_Witness ==
    /\ law = "distribute" /\ ringA = 3
    /\ p_x = <<0, 0, 1, 2>> /\ p_y = <<2, 2, 0, 1>> /\ p_z = <<0, 2, 0, 0>>
    /\ lhs = rhs

\* the integer sum over i+j=k of a_i*b_j minus the sum over i+j=k+N of a_i*b_j,
\* pairs (i, j) counted from idx = i*N + j on
RECURSIVE ConvSum(_, _, _, _)
ConvSum(a, b, k, idx) ==
    LET n == Len(a)
        i == idx \div n
        j == idx % n
        t == IF i + j = k THEN a[i + 1] * b[j + 1]
             ELSE IF i + j = k + n THEN -(a[i + 1] * b[j + 1])
             ELSE 0
    IN  IF idx = n * n THEN 0 ELSE t + ConvSum(a, b, k, idx + 1)

\* C8: Polynomial multiplication is the negacyclic convolution: coefficient k
\* of a*b is (sum over i+j=k of a_i*b_j) - (sum over i+j=k+N of a_i*b_j)
\* reduced mod A.
C8_NegacyclicConvolution ==
    law = "product" =>
        \A k \in 0..(Len(p_x) - 1) :
            lhs[k + 1] = ConvSum(p_x, p_y, k, 0) % ringA

\* C8 witness: x^(N-1) * x = -1 in Z_32[x]/(x^2+1)
C8_Witness ==
    /\ law = "product" /\ ringA = 32
    /\ p_x = <<0, 1>> /\ p_y = <<0, 1>>
    /\ lhs = <<31, 0>>

---------------------------------------------------------------------------
(* BFV, public-key (bfv_pke.rs) and symmetric-key (bfv_ske.rs).  The       *)
(* operators take the values the source samples as parameters; the actions *)
(* below draw them.                                                        *)

\* mutant: pk.0 is left unnegated
pke_keygen_unnegated(q, s, a, e) ==
    <<Polynomial_add(q, Polynomial_mul(q, a, lift(q, s)), e), a>>

\* Bfv::keygen (bfv_pke.rs): pk = (-(a * sk.lift() + e), a)
pke_keygen(q, s, a, e) ==
    <<Polynomial_neg(q, Polynomial_add(q, Polynomial_mul(q, a, lift(q, s)), e)), a>>

\* Bfv::encrypt (bfv_pke.rs) with the sampled u, e_1, e_2
pke_encrypt(q, t, key, message, u, e_1, e_2) ==
    LET delta_elem == Element_new(q, div_ceil(q, t))
        delta_m    == Polynomial_mul_elem(q, lift(q, message), delta_elem)
        ul         == lift(q, u)
    IN  [c_1 |-> Polynomial_add(q,
                    Polynomial_add(q, Polynomial_mul(q, key[1], ul), e_1), delta_m),
         c_2 |-> Polynomial_add(q, Polynomial_mul(q, key[2], ul), e_2)]

\* mutant: the rounded quotient is not reduced into Z_T
pke_decrypt_unreduced(q, t, ct, s) ==
    LET d     == Polynomial_add(q, ct.c_1, Polynomial_mul(q, ct.c_2, lift(q, s)))
        delta == div_ceil(q, t)
    IN  [i \in 1..Len(d) |-> (d[i] + delta \div 2) \div delta]

\* mutant: the quotient is taken without adding delta/2 first
pke_decrypt_truncating(q, t, ct, s) ==
    LET d     == Polynomial_add(q, ct.c_1, Polynomial_mul(q, ct.c_2, lift(q, s)))
        delta == div_ceil(q, t)
    IN  [i \in 1..Len(d) |-> Element_new(t, d[i] \div delta)]

\* BfvCipher::decrypt (bfv_pke.rs)
pke_decrypt(q, t, ct, s) ==
    LET d     == Polynomial_add(q, ct.c_1, Polynomial_mul(q, ct.c_2, lift(q, s)))
        delta == div_ceil(q, t)
    IN  [i \in 1..Len(d) |-> Element_new(t, (d[i] + delta \div 2) \div delta)]

\* BfvCipher::decrypt (bfv.rs): the quotient is reduced % T before Element::new
bfv_decrypt(q, t, ct, s) ==
    LET d     == Polynomial_add(q, ct.c_1, Polynomial_mul(q, ct.c_2, lift(q, s)))
        delta == div_ceil(q, t)
    IN  [i \in 1..Len(d) |-> Element_new(t, ((d[i] + delta \div 2) \div delta) % t)]

\* mutant: c_2 of the right operand is dropped
cipher_add_c1_only(q, l, r) ==
    [c_1 |-> Polynomial_add(q, l.c_1, r.c_1), c_2 |-> l.c_2]

\* impl Add for BfvCipher (bfv_pke.rs and bfv_ske.rs have the same body)
cipher_add(q, l, r) ==
    [c_1 |-> Polynomial_add(q, l.c_1, r.c_1),
     c_2 |-> Polynomial_add(q, l.c_2, r.c_2)]

\* mutant: only c_1 is multiplied
cipher_mul_plain_c1_only(q, ct, plain) ==
    [c_1 |-> Polynomial_mul(q, ct.c_1, plain), c_2 |-> ct.c_2]

\* impl Mul<Polynomial<N, Q>> for &BfvCipher (bfv_pke.rs)
cipher_mul_plain(q, ct, plain) ==
    [c_1 |-> Polynomial_mul(q, ct.c_1, plain),
     c_2 |-> Polynomial_mul(q, ct.c_2, plain)]

\* Bfv::encrypt (bfv_ske.rs) with the sampled a, e
ske_encrypt(q, t, message, s, a, e) ==
    LET delta_elem == Element_new(q, div_ceil(q, t))
        delta_m    == Polynomial_mul_elem(q, lift(q, message), delta_elem)
    IN  [c_1 |-> Polynomial_add(q,
                    Polynomial_add(q, Polynomial_mul(q, lift(q, s), a), delta_m), e),
         c_2 |-> Polynomial_neg(q, a)]

\* BfvCipher::decrypt (bfv_ske.rs)
ske_decrypt(q, ct, s) ==
    msb(q, Polynomial_add(q, ct.c_1, Polynomial_mul(q, ct.c_2, lift(q, s))))

---------------------------------------------------------------------------
(* Parameters of the tests, and the sampled values the model enumerates    *)

\* const N, Q, T of tests::test_bfv_add_t_2_example
N == 4
Q == 32
T == 2

\* const Q, T of tests::test_bfv_add_t_3_example
Q_t_3 == 128
T_t_3 == 3

\* how many position masks the {0,1} polynomials sk and u are drawn from
MaxKeySamples == 2
\* how many position masks the error polynomials e, e_1, e_2 are drawn from
MaxErrSamples == 2
\* how many uniform polynomials a is drawn from
MaxUniformSamples == 2
\* how many messages are encrypted
MaxMsgSamples == 2
\* how many plaintext multipliers are tried
MaxPlainSamples == 4

Take(order, k) == {order[i] : i \in 1..(IF k < Len(order) THEN k ELSE Len(order))}

\* position masks, the extreme ones first
MaskOrder ==
    << <<1, 1, 1, 1>>, <<0, 0, 0, 0>>, <<0, 1, 1, 1>>, <<1, 0, 0, 0>>,
       <<1, 0, 1, 0>>, <<0, 0, 0, 1>> >>

\* outcomes of Polynomial::<N, 2>::rand()
KeySamples ==
    {p \in Take(MaskOrder, MaxKeySamples) : \A i \in 1..N : p[i] \in rand_support(2)}

\* outcomes of Polynomial::<N, A>::ternary_error(): a non-zero value of the
\* support at the positions of a mask
ErrSamples(A) ==
    {[i \in 1..N |-> IF mask[i] = 1 THEN c ELSE 0] :
        mask \in Take(MaskOrder, MaxErrSamples),
        c \in ternary_error_support(A) \ {0}}

UniformOrder(A) ==
    << [i \in 1..N |-> A - 1],
       <<1, A - 2, A \div 2, 0>>,
       <<5, 7, A - 8, 8>>,
       <<A \div 2, A \div 2, A \div 2, A \div 2>> >>

\* outcomes of Polynomial::<N, A>::rand()
UniformSamples(A) ==
    {p \in Take(UniformOrder(A), MaxUniformSamples) :
        \A i \in 1..N : p[i] \in rand_support(A)}

\* the messages of the tests first (Element::new of each listed value)
MsgOrder(t) ==
    IF t = 2
    THEN << <<1, 0, 1, 0>>, <<0, 1, 1, 1>>, <<1, 1, 1, 1>>, <<0, 0, 0, 0>> >>
    ELSE << <<1, 2, 1, 0>>, <<0, 2, 2, 1>>, <<2, 2, 2, 2>>, <<0, 0, 0, 0>> >>

MsgSamples(t) ==
    {[i \in 1..N |-> Element_new(t, m[i])] : m \in Take(MsgOrder(t), MaxMsgSamples)}

\* plaintext multipliers: x, 1 + x, -1, 2, 3, x^3
PlainOrder(A) ==
    << <<0, 1, 0, 0>>, <<1, 1, 0, 0>>, <<A - 1, 0, 0, 0>>, <<2, 0, 0, 0>>,
       <<3, 0, 0, 0>>, <<0, 0, 0, 1>> >>

PlainSamples(A) == Take(PlainOrder(A), MaxPlainSamples)

---------------------------------------------------------------------------
(* Public-key machine: keygen, encrypt(m_a), then decrypt it, or multiply  *)
(* it by a plaintext and decrypt, or encrypt(m_b), add and decrypt (the    *)
(* body of tests::test_bfv_add_t_2_example / test_bfv_add_t_3_example).    *)
(* A ciphertext passed by value is moved out of its variable.              *)

InitBfv(q, t) ==
    /\ prm = [Q |-> q, T |-> t]
    /\ pc = "start"
    /\ sk = <<>> /\ pk = <<>> /\ m_a = <<>> /\ m_b = <<>>
    /\ enc_a = NoCipher /\ enc_b = NoCipher /\ enc_3 = NoCipher
    /\ pt = <<>> /\ dec = <<>>
    /\ n_adds = 0
    /\ IdleElem /\ IdleRing /\ IdlePasta

Keygen ==
    /\ pc = "start"
    /\ \E s \in KeySamples, a \in UniformSamples(prm.Q), e \in ErrSamples(prm.Q) :
          /\ sk' = s
          /\ pk' = pke_keygen(prm.Q, s, a, e)
    /\ pc' = "keyed"
    /\ UNCHANGED <<prm, m_a, m_b, enc_a, enc_b, enc_3, pt, dec, elemVars, ringVars, accVars, pastaVars>>

EncryptA ==
    /\ pc = "keyed"
    /\ \E m \in MsgSamples(prm.T), u \in KeySamples,
          e_1 \in ErrSamples(prm.Q), e_2 \in ErrSamples(prm.Q) :
          /\ m_a' = m
          /\ enc_a' = pke_encrypt(prm.Q, prm.T, pk, m, u, e_1, e_2)
    /\ pc' = "enc_a"
    /\ UNCHANGED <<prm, sk, pk, m_b, enc_b, enc_3, pt, dec, elemVars, ringVars, accVars, pastaVars>>

EncryptB ==
    /\ pc = "enc_a"
    /\ \E m \in MsgSamples(prm.T), u \in KeySamples,
          e_1 \in ErrSamples(prm.Q), e_2 \in ErrSamples(prm.Q) :
          /\ m_b' = m
          /\ enc_b' = pke_encrypt(prm.Q, prm.T, pk, m, u, e_1, e_2)
    /\ pc' = "enc_b"
    /\ UNCHANGED <<prm, sk, pk, m_a, enc_a, enc_3, pt, dec, elemVars, ringVars, accVars, pastaVars>>

\* enc_3 = enc_a + enc_b
Add ==
    /\ pc = "enc_b"
    /\ enc_3' = cipher_add(prm.Q, enc_a, enc_b)
    /\ enc_a' = NoCipher
    /\ enc_b' = NoCipher
    /\ pc' = "added"
    /\ UNCHANGED <<prm, sk, pk, m_a, m_b, pt, dec, elemVars, ringVars, accVars, pastaVars>>

\* enc_3 = &enc_a * pt
MulPlain ==
    /\ pc = "enc_a"
    /\ \E plain \in PlainSamples(prm.Q) :
          /\ pt' = plain
          /\ enc_3' = cipher_mul_plain(prm.Q, enc_a, plain)
    /\ pc' = "scaled"
    /\ UNCHANGED <<prm, sk, pk, m_a, m_b, enc_a, enc_b, dec, elemVars, ringVars, accVars, pastaVars>>

\* enc_a.decrypt(sk)
DecryptFresh ==
    /\ pc = "enc_a"
    /\ dec' = pke_decrypt(prm.Q, prm.T, enc_a, sk)
    /\ enc_a' = NoCipher
    /\ pc' = "dec_fresh"
    /\ UNCHANGED <<prm, sk, pk, m_a, m_b, enc_b, enc_3, pt, elemVars, ringVars, accVars, pastaVars>>

\* enc_3.decrypt(sk), enc_3 a product by a plaintext
DecryptScaled ==
    /\ pc = "scaled"
    /\ dec' = pke_decrypt(prm.Q, prm.T, enc_3, sk)
    /\ enc_3' = NoCipher
    /\ pc' = "dec_scaled"
    /\ UNCHANGED <<prm, sk, pk, m_a, m_b, enc_a, enc_b, pt, elemVars, ringVars, accVars, pastaVars>>

\* enc_3.decrypt(sk), enc_3 a sum
DecryptSum ==
    /\ pc = "added"
    /\ dec' = pke_decrypt(prm.Q, prm.T, enc_3, sk)
    /\ enc_3' = NoCipher
    /\ pc' = "dec_sum"
    /\ UNCHANGED <<prm, sk, pk, m_a, m_b, enc_a, enc_b, pt, elemVars, ringVars, accVars, pastaVars>>

Next ==
    \/ Keygen \/ EncryptA \/ EncryptB \/ Add \/ MulPlain
    \/ DecryptFresh \/ DecryptScaled \/ DecryptSum

\* N=4, Q=32, T=2
Spec == InitBfv(Q, T) /\ [][Next]_vars

\* N=4, Q=128, T=3
SpecPkeT3 == InitBfv(Q_t_3, T_t_3) /\ [][Next]_vars

---------------------------------------------------------------------------
(* Symmetric-key machine: keygen, encrypt(m_a, sk), then decrypt it, or    *)
(* encrypt(m_b, sk), add and decrypt (tests::test_bfv_add_t_2_example of   *)
(* bfv_ske.rs).                                                            *)

\* every outcome of Polynomial::<N, 2>::rand()
AllKeys == [1..N -> rand_support(2)]

\* every message of the test: Element::new(rng.random_range(0..T)) per coefficient
AllMsgs(t) == [1..N -> {Element_new(t, v) : v \in 0..(t - 1)}]

\* Bfv::keygen (bfv_ske.rs)
SkeKeygen ==
    /\ pc = "start"
    /\ \E s \in AllKeys : sk' = s
    /\ pc' = "keyed"
    /\ UNCHANGED <<prm, pk, m_a, m_b, enc_a, enc_b, enc_3, pt, dec, elemVars, ringVars, accVars, pastaVars>>

SkeEncryptA ==
    /\ pc = "keyed"
    /\ \E m \in AllMsgs(prm.T), a \in UniformSamples(prm.Q), e \in ErrSamples(prm.Q) :
          /\ m_a' = m
          /\ enc_a' = ske_encrypt(prm.Q, prm.T, m, sk, a, e)
    /\ pc' = "enc_a"
    /\ UNCHANGED <<prm, sk, pk, m_b, enc_b, enc_3, pt, dec, elemVars, ringVars, accVars, pastaVars>>

SkeEncryptB ==
    /\ pc = "enc_a"
    /\ \E m \in AllMsgs(prm.T), a \in UniformSamples(prm.Q), e \in ErrSamples(prm.Q) :
          /\ m_b' = m
          /\ enc_b' = ske_encrypt(prm.Q, prm.T, m, sk, a, e)
    /\ pc' = "enc_b"
    /\ UNCHANGED <<prm, sk, pk, m_a, enc_a, enc_3, pt, dec, elemVars, ringVars, accVars, pastaVars>>

SkeAdd ==
    /\ pc = "enc_b"
    /\ enc_3' = cipher_add(prm.Q, enc_a, enc_b)
    /\ enc_a' = NoCipher
    /\ enc_b' = NoCipher
    /\ pc' = "added"
    /\ UNCHANGED <<prm, sk, pk, m_a, m_b, pt, dec, elemVars, ringVars, accVars, pastaVars>>

SkeDecryptFresh ==
    /\ pc = "enc_a"
    /\ dec' = ske_decrypt(prm.Q, enc_a, sk)
    /\ enc_a' = NoCipher
    /\ pc' = "dec_fresh"
    /\ UNCHANGED <<prm, sk, pk, m_a, m_b, enc_b, enc_3, pt, elemVars, ringVars, accVars, pastaVars>>

SkeDecryptSum ==
    /\ pc = "added"
    /\ dec' = ske_decrypt(prm.Q, enc_3, sk)
    /\ enc_3' = NoCipher
    /\ pc' = "dec_sum"
    /\ UNCHANGED <<prm, sk, pk, m_a, m_b, enc_a, enc_b, pt, elemVars, ringVars, accVars, pastaVars>>

NextSke ==
    \/ SkeKeygen \/ SkeEncryptA \/ SkeEncryptB \/ SkeAdd
    \/ SkeDecryptFresh \/ SkeDecryptSum

\* N=4, Q=32, T=2
SpecSke == InitBfv(Q, T) /\ [][NextSke]_vars

---------------------------------------------------------------------------
(* What the claims are stated with *)

\* the representative of v mod A nearest to zero, in (-A/2, A/2]
Centred(A, v) == IF 2 * (v % A) > A THEN (v % A) - A ELSE v % A

\* d = c_1 + c_2 * sk lifted to Q
Phase(ct) ==
    Polynomial_add(prm.Q, ct.c_1, Polynomial_mul(prm.Q, ct.c_2, lift(prm.Q, sk)))

Delta == div_ceil(prm.Q, prm.T)

\* the noise of a ciphertext of message m: d - Delta*m, centred
Noise(ct, m) == [i \in 1..N |-> Centred(prm.Q, Phase(ct)[i] - Delta * m[i])]

\* m_a + m_b coefficientwise mod T
MsgSum == [i \in 1..N |-> (m_a[i] + m_b[i]) % prm.T]

\* C1 as stated: whatever keygen and the two encrypt calls sampled,
\* decrypt(encrypt(m_a) + encrypt(m_b), sk) = m_a + m_b mod 2.
C1_PkeAddDecrypts ==
    (pc = "dec_sum" /\ prm.T = T) => dec = MsgSum

\* C2: public-key round trip, N=4, Q=32, T=2: decrypt(encrypt(m), sk) = m, and
\* every coefficient of the noise of a fresh ciphertext is below Delta/2 = 8
\* in absolute value.
C2_PkeRoundTrip ==
    /\ (pc = "dec_fresh" => dec = m_a)
    /\ (pc = "enc_a" =>
            \A i \in 1..N :
                /\ Noise(enc_a, m_a)[i] < Delta \div 2
                /\ -Noise(enc_a, m_a)[i] < Delta \div 2)

\* C2 witness: a fresh ciphertext of the test's message was decrypted under
\* a non-zero key
C2_Witness ==
    /\ pc = "dec_fresh" /\ m_a = <<1, 0, 1, 0>> /\ dec = <<1, 0, 1, 0>>
    /\ sk = <<1, 1, 1, 1>>

\* C3: symmetric-key homomorphic addition, N=4, Q=32, T=2:
\* decrypt(encrypt(m_a, sk) + encrypt(m_b, sk), sk) = m_a + m_b mod 2.
C3_SkeAddDecrypts ==
    (pc = "dec_sum" /\ pk = <<>>) => dec = MsgSum

\* C3 witness: the sum of two messages that overlap in one coefficient was
\* decrypted under a key that is neither zero nor all ones
C3_Witness ==
    /\ pc = "dec_sum" /\ sk = <<0, 1, 1, 0>>
    /\ m_a = <<1, 0, 1, 0>> /\ m_b = <<0, 1, 1, 1>> /\ dec = <<1, 1, 0, 1>>

\* C4: symmetric-key round trip, N=4, Q=32, T=2:
\* decrypt(encrypt(m, sk), sk) = m.
C4_SkeRoundTrip ==
    (pc = "dec_fresh" /\ pk = <<>>) => dec = m_a

\* C4 witness: a fresh ciphertext of the test's message was decrypted
C4_Witness ==
    /\ pc = "dec_fresh" /\ sk = <<1, 1, 0, 1>>
    /\ m_a = <<1, 0, 1, 0>> /\ dec = <<1, 0, 1, 0>>

\* C5: public-key homomorphic addition with T not dividing Q, N=4, Q=128,
\* T=3: decrypt(encrypt(m_a) + encrypt(m_b), sk) = m_a + m_b mod 3.
C5_PkeAddDecryptsT3 ==
    (pc = "dec_sum" /\ prm.T = T_t_3) => dec = MsgSum

\* C5 witness: the sum of the test's two messages, which wraps past T and
\* past Q, was decrypted
C5_Witness ==
    /\ pc = "dec_sum" /\ prm.Q = Q_t_3 /\ sk = <<1, 1, 1, 1>>
    /\ m_a = <<1, 2, 1, 0>> /\ m_b = <<0, 2, 2, 1>> /\ dec = <<1, 1, 0, 1>>

\* pt * v in Z_Q[x]/(x^N+1), each coefficient centred, v the noise of enc_a
ScaledNoise ==
    [k \in 1..N |-> Centred(prm.Q, ConvSum(pt, Noise(enc_a, m_a), k - 1, 0))]

\* every coefficient of the multiplied noise is below Delta/2 in absolute value
UnderBudget ==
    \A k \in 1..N : 2 * ScaledNoise[k] < Delta /\ -2 * ScaledNoise[k] < Delta

\* pt * m in the ring, reduced mod T
PlainProduct == [k \in 1..N |-> ConvSum(pt, m_a, k - 1, 0) % prm.T]

\* C6: plaintext-by-ciphertext multiplication, N=4, Q=32, T=2: when every
\* coefficient of pt*v is below Delta/2 in absolute value, v the noise of
\* c = encrypt(m), decrypt((c_1*pt, c_2*pt), sk) = pt*m mod T.
C6_PlainMulDecrypts ==
    (pc = "dec_scaled" /\ UnderBudget) => dec = PlainProduct

\* C6 witness: a ciphertext with non-zero noise was multiplied by 1 + x,
\* stayed under budget and was decrypted
C6_Witness ==
    /\ pc = "dec_scaled" /\ pt = <<1, 1, 0, 0>> /\ m_a = <<1, 0, 1, 0>>
    /\ UnderBudget
    /\ \E k \in 1..N : ScaledNoise[k] > 2
    /\ dec = <<1, 1, 1, 1>>

---------------------------------------------------------------------------
(* Constructor machine: a polynomial p_x made by one of the constructors   *)
(* (new, rand, ternary_error, lift, from_int_scaled), then any sequence of *)
(* the operators applied to it and to an operand p_y.                      *)

\* the rings <<N, A>> of the constructor machine
PolyShapes == {<<4, 2>>, <<2, 3>>, <<2, 32>>}

\* the moduli a polynomial is lifted from
LiftModuli == {2, 3, 32}

\* integers given to from_int_scaled are below 2^MaxIntBits
MaxIntBits == 4

\* integers of more than sixteen bits: bit 16, bits 16 and 0, bits 17 and 15
WideInts == {65536, 65537, 163840}

\* the integers given to from_int_scaled
IntSamples == 0..(Pow2(MaxIntBits) - 1) \cup WideInts

\* scales given to from_int_scaled: 0, 1, and Delta of the tests (16, 43)
ScaleSamples == {0, 1, div_ceil(Q, T), div_ceil(Q_t_3, T_t_3)}

InitPoly ==
    /\ \E shape \in PolyShapes :
          /\ ringA = shape[2]
          /\ p_x = ZeroPoly(shape[2], shape[1])
          /\ p_y \in RingPolys(shape[1], shape[2])
    /\ p_z = <<>> /\ law = "new" /\ lhs = <<>> /\ rhs = <<>>
    /\ IdleElem /\ IdleBfv /\ IdlePasta

\* Polynomial::new of Element::new(v) at every index
PolyNew ==
    /\ law = "new"
    /\ \E v \in ElemInputs : p_x' = [i \in 1..Len(p_x) |-> Element_new(ringA, v)]
    /\ law' = "element_new" /\ lhs' = <<>> /\ rhs' = <<>>
    /\ UNCHANGED <<ringA, p_y, p_z, elemVars, bfvVars, accVars, pastaVars>>

\* Polynomial::rand()
Rand ==
    /\ law = "new"
    /\ p_x' \in [1..Len(p_x) -> rand_support(ringA)]
    /\ law' = "rand" /\ lhs' = <<>> /\ rhs' = <<>>
    /\ UNCHANGED <<ringA, p_y, p_z, elemVars, bfvVars, accVars, pastaVars>>

\* Polynomial::ternary_error()
TernaryError ==
    /\ law = "new"
    /\ p_x' \in [1..Len(p_x) -> ternary_error_support(ringA)]
    /\ law' = "ternary_error" /\ lhs' = <<>> /\ rhs' = <<>>
    /\ UNCHANGED <<ringA, p_y, p_z, elemVars, bfvVars, accVars, pastaVars>>

\* source.lift::<A>(), the source (kept in lhs) over the modulus kept in rhs
Lift ==
    /\ law = "new"
    /\ \E B \in LiftModuli :
          \E source \in RingPolys(Len(p_x), B) :
             /\ p_x' = lift(ringA, source)
             /\ lhs' = source
             /\ rhs' = <<B>>
    /\ law' = "lift"
    /\ UNCHANGED <<ringA, p_y, p_z, elemVars, bfvVars, accVars, pastaVars>>

\* Polynomial::from_int_scaled(int, delta), the arguments kept in rhs
FromIntScaled ==
    /\ law = "new"
    /\ \E int \in IntSamples, delta \in ScaleSamples :
          /\ p_x' = from_int_scaled(Len(p_x), ringA, int, delta)
          /\ rhs' = <<int, delta>>
    /\ law' = "from_int_scaled" /\ lhs' = <<>>
    /\ UNCHANGED <<ringA, p_y, p_z, elemVars, bfvVars, accVars, pastaVars>>

\* p_x + p_y
PolyAdd ==
    /\ law \notin {"idle"}
    /\ p_x' = Polynomial_add(ringA, p_x, p_y)
    /\ law' = "add" /\ lhs' = <<>> /\ rhs' = <<>>
    /\ UNCHANGED <<ringA, p_y, p_z, elemVars, bfvVars, accVars, pastaVars>>

\* p_x * p_y
PolyMul ==
    /\ law \notin {"idle"}
    /\ p_x' = Polynomial_mul(ringA, p_x, p_y)
    /\ law' = "mul" /\ lhs' = <<>> /\ rhs' = <<>>
    /\ UNCHANGED <<ringA, p_y, p_z, elemVars, bfvVars, accVars, pastaVars>>

\* -p_x
PolyNeg ==
    /\ law \notin {"idle"}
    /\ p_x' = Polynomial_neg(ringA, p_x)
    /\ law' = "neg" /\ lhs' = <<>> /\ rhs' = <<>>
    /\ UNCHANGED <<ringA, p_y, p_z, elemVars, bfvVars, accVars, pastaVars>>

\* p_x * e, e an Element of p_y
PolyMulElem ==
    /\ law \notin {"idle"}
    /\ p_x' = Polynomial_mul_elem(ringA, p_x, p_y[1])
    /\ law' = "mul_elem" /\ lhs' = <<>> /\ rhs' = <<>>
    /\ UNCHANGED <<ringA, p_y, p_z, elemVars, bfvVars, accVars, pastaVars>>

\* Element - Element on the first coefficients
CoefSub ==
    /\ law \notin {"idle"}
    /\ p_x' = [p_x EXCEPT ![1] = Element_sub(ringA, p_x[1], p_y[1])]
    /\ law' = "element_sub" /\ lhs' = <<>> /\ rhs' = <<>>
    /\ UNCHANGED <<ringA, p_y, p_z, elemVars, bfvVars, accVars, pastaVars>>

NextPoly ==
    \/ PolyNew \/ Rand \/ TernaryError \/ Lift \/ FromIntScaled
    \/ PolyAdd \/ PolyMul \/ PolyNeg \/ PolyMulElem \/ CoefSub

SpecPoly == InitPoly /\ [][NextPoly]_vars

\* C11: after any sequence of constructors and operators, every coefficient
\* of every polynomial has value() < A (value() a u64).
C11_ResidueRange ==
    law # "idle" =>
        /\ \A i \in 1..Len(p_x) : p_x[i] \in 0..(ringA - 1)
        /\ \A i \in 1..Len(p_y) : p_y[i] \in 0..(ringA - 1)

\* C11 witness: a polynomial lifted from Z_32 into Z_3 was squared-by-operand
\* and negated
C11_Witness ==
    /\ law = "neg" /\ ringA = 3 /\ p_y = <<2, 2>> /\ p_x = <<1, 2>>

\* the balanced representative of the residue v of Z_A: {0,1} for A = 2,
\* {-1,0,1} for A = 3, and B - 1 read as -1
BalancedRep(A, v) == IF 2 * v > A THEN v - A ELSE v

C14_TernarySupport ==
    /\ law = "new" =>
          \A i \in 1..Len(p_x) : \A v \in {-1, 0, 1} :
              ENABLED (TernaryError /\ p_x'[i] = Element_new(ringA, v))
    /\ law = "ternary_error" =>
          \A i \in 1..Len(p_x) :
              p_x[i] \in {Element_new(ringA, v) : v \in {-1, 0, 1}}

---------------------------------------------------------------------------
(* from_int_scaled over rings of dimension 4 and 32.                       *)

\* the rings <<N, A>> integers are encoded into
EncodeShapes == {<<4, 2>>, <<4, 32>>, <<32, 32>>, <<32, 128>>}

InitFromInt ==
    /\ \E shape \in EncodeShapes :
          /\ ringA = shape[2]
          /\ p_x = ZeroPoly(shape[2], shape[1])
          /\ p_y = ZeroPoly(shape[2], shape[1])
    /\ p_z = <<>> /\ law = "new" /\ lhs = <<>> /\ rhs = <<>>
    /\ IdleElem /\ IdleBfv /\ IdlePasta

SpecFromInt == InitFromInt /\ [][FromIntScaled]_vars

\* the u64 width of the integer argument
U64_BITS == 64

\* C15: coefficient i of from_int_scaled(integer, delta) is
\* ((integer >> i) & 1) * delta reduced mod A at every index i < N that is a
\* bit position of the integer (i < 64), and 0 at every other index.
C15_EveryBitEncoded ==
    law = "from_int_scaled" =>
        \A i \in 0..(Len(p_x) - 1) :
            p_x[i + 1] = IF i < U64_BITS
                         THEN ((Shr(rhs[1], i) % 2) * rhs[2]) % ringA
                         ELSE 0

---------------------------------------------------------------------------
(* Element * Element at the width of its intermediate type.  The i64 of    *)
(* the code is scaled down to IntWidth bits: a product outside the signed  *)
(* range wraps modulo 2^IntWidth (release build) or panics (debug build).  *)

\* the width of the signed intermediate type (64 in the code)
IntWidth == 8

\* the largest value of the signed type of width w
SignedMax(w) == Pow2(w - 1) - 1

\* v wrapped into the signed type of width w (two's complement)
WrapSigned(w, v) == ((v + Pow2(w - 1)) % Pow2(w)) - Pow2(w - 1)

\* v as u64: a negative value of the signed type read as unsigned
AsUnsigned(w, v) == IF v < 0 THEN v + Pow2(w) ELSE v

\* the outcomes of one signed operation whose exact result is v
Checked(w, v) ==
    IF v \in (-Pow2(w - 1))..SignedMax(w)
    THEN {[panic |-> FALSE, value |-> v]}
    ELSE {[panic |-> TRUE, value |-> 0],
          [panic |-> FALSE, value |-> WrapSigned(w, v)]}

\* Element::<A>::balanced(v) on the signed type of width w
balanced_i64(w, A, v) ==
    {IF s.panic THEN s ELSE [panic |-> FALSE,
                             value |-> AsUnsigned(w, RustRem(s.value, A))] :
        s \in Checked(w, RustRem(v, A) + A)}

\* Element * Element: Self::new(self.value as i64 * rhs.value as i64)
Element_mul_i64(w, A, a, b) ==
    UNION {IF prod.panic THEN {prod} ELSE balanced_i64(w, A, prod.value) :
              prod \in Checked(w, a * b)}

\* moduli of the width machine: 2, one below and one above the square root of
\* 2^IntWidth (the 2^32 of the code), and the half of the largest signed value
WideModuli ==
    {2, Pow2(IntWidth \div 2) - 1, Pow2(IntWidth \div 2) + 1,
     SignedMax(IntWidth) \div 2}

InitWide ==
    /\ modA \in WideModuli
    /\ x \in 0..(modA - 1)
    /\ y \in 0..(modA - 1)
    /\ e_op = "none" /\ z = 0
    /\ IdleRing /\ IdleBfv /\ IdlePasta

\* Element { value: x } * Element { value: y }
ElemMulWide ==
    /\ e_op = "none"
    /\ \E out \in Element_mul_i64(IntWidth, modA, x, y) :
          /\ e_op' = IF out.panic THEN "mul_panic" ELSE "mul"
          /\ z' = out.value
    /\ UNCHANGED <<modA, x, y, ringVars, bfvVars, accVars, pastaVars>>

SpecWide == InitWide /\ [][ElemMulWide]_vars

\* C12: for every modulus M of the storage type and all a, b in Z_M, Element
\* mul returns exactly (a * b) mod M; the intermediate product never
\* overflows, wraps or truncates the signed type.
C12_WidenedProduct ==
    e_op \in {"mul", "mul_panic"} => (e_op = "mul" /\ z = (x * y) % modA)

---------------------------------------------------------------------------
(* Construction machine: keygen and one encrypt of Bfv<N, Q, T> for const  *)
(* generics of any value, public-key (bfv_pke.rs) and symmetric-key        *)
(* (bfv_ske.rs).  prm carries N and the variant next to Q and T.           *)

\* the const generics <N, Q, T> the schemes are built with: the ones of the
\* tests, then N = 3, T > Q, T = Q and Q = 0
ConfigShapes ==
    {<<4, 32, 2>>, <<4, 128, 3>>, <<3, 32, 2>>, <<4, 2, 3>>, <<2, 3, 3>>, <<4, 0, 2>>}

Configs ==
    {[N |-> c[1], Q |-> c[2], T |-> c[3], variant |-> v] :
        c \in ConfigShapes, v \in {"pke", "ske"}}

\* Uniform::new(0, A).unwrap() panics on an empty range, x % A on A = 0
ZeroModulusPanics(A) == A = 0

\* sampled polynomials of the construction machine: all coefficients equal
ConstPolys(n, values) == {[i \in 1..n |-> v] : v \in values}

\* outcomes of Polynomial::<N, A>::rand() drawn: the least and the greatest
ConfigUniform(n, A) == ConstPolys(n, {v \in rand_support(A) : v = 0 \/ v = A - 1})

InitConfig ==
    /\ prm \in Configs
    /\ pc = "start"
    /\ sk = <<>> /\ pk = <<>> /\ m_a = <<>> /\ m_b = <<>>
    /\ enc_a = NoCipher /\ enc_b = NoCipher /\ enc_3 = NoCipher
    /\ pt = <<>> /\ dec = <<>>
    /\ n_adds = 0
    /\ IdleElem /\ IdleRing /\ IdlePasta

\* Bfv::<N, Q, T>::keygen() of bfv_pke.rs
ConfigKeygenPke ==
    /\ pc = "start" /\ prm.variant = "pke"
    /\ IF ZeroModulusPanics(prm.Q)
       THEN pc' = "panic" /\ UNCHANGED <<sk, pk>>
       ELSE /\ \E s \in ConfigUniform(prm.N, 2), a \in ConfigUniform(prm.N, prm.Q),
                  e \in ConstPolys(prm.N, ternary_error_support(prm.Q)) :
                  /\ sk' = s
                  /\ pk' = pke_keygen(prm.Q, s, a, e)
            /\ pc' = "keyed"
    /\ UNCHANGED <<prm, m_a, m_b, enc_a, enc_b, enc_3, pt, dec, elemVars, ringVars, accVars, pastaVars>>

\* Bfv::<N, Q, T>::keygen() of bfv_ske.rs
ConfigKeygenSke ==
    /\ pc = "start" /\ prm.variant = "ske"
    /\ sk' \in ConfigUniform(prm.N, 2)
    /\ pc' = "keyed"
    /\ UNCHANGED <<prm, pk, m_a, m_b, enc_a, enc_b, enc_3, pt, dec, elemVars, ringVars, accVars, pastaVars>>

\* bfv.encrypt(message) of bfv_pke.rs
ConfigEncryptPke ==
    /\ pc = "keyed" /\ prm.variant = "pke"
    /\ \E m \in ConstPolys(prm.N, rand_support(prm.T)),
          u \in ConfigUniform(prm.N, 2),
          e_1 \in ConstPolys(prm.N, ternary_error_support(prm.Q)),
          e_2 \in ConstPolys(prm.N, ternary_error_support(prm.Q)) :
          /\ m_a' = m
          /\ enc_a' = pke_encrypt(prm.Q, prm.T, pk, m, u, e_1, e_2)
    /\ pc' = "enc_a"
    /\ UNCHANGED <<prm, sk, pk, m_b, enc_b, enc_3, pt, dec, elemVars, ringVars, accVars, pastaVars>>

\* bfv.encrypt(message, sk) of bfv_ske.rs
ConfigEncryptSke ==
    /\ pc = "keyed" /\ prm.variant = "ske"
    /\ \E m \in ConstPolys(prm.N, rand_support(prm.T)) :
          /\ m_a' = m
          /\ IF ZeroModulusPanics(prm.Q)
             THEN pc' = "panic" /\ UNCHANGED enc_a
             ELSE /\ \E a \in ConfigUniform(prm.N, prm.Q),
                        e \in ConstPolys(prm.N, ternary_error_support(prm.Q)) :
                        enc_a' = ske_encrypt(prm.Q, prm.T, m, sk, a, e)
                  /\ pc' = "enc_a"
    /\ UNCHANGED <<prm, sk, pk, m_b, enc_b, enc_3, pt, dec, elemVars, ringVars, accVars, pastaVars>>

NextConfig ==
    \/ ConfigKeygenPke \/ ConfigKeygenSke \/ ConfigEncryptPke \/ ConfigEncryptSke

SpecConfig == InitConfig /\ [][NextConfig]_vars

\* n is a power of two
IsPowerOfTwo(n) == \E k \in 0..n : Pow2(k) = n

\* N not a power of two, T >= Q, or Delta = ceil(Q / T) = 0
Misconfigured(c) ==
    \/ ~IsPowerOfTwo(c.N)
    \/ c.T >= c.Q
    \/ div_ceil(c.Q, c.T) = 0

\* C16: keygen under misconfigured parameters returns no scheme or key, and
\* no encrypt call produces a ciphertext under such parameters.
C16_MisconfigurationRejected ==
    Misconfigured(prm) =>
        /\ pc \notin {"keyed", "enc_a"}
        /\ sk = <<>>
        /\ enc_a = NoCipher

---------------------------------------------------------------------------
(* Decryption machine: one pair (c_1, c_2) over Z_Q held by a BfvCipher of *)
(* bfv_pke.rs (enc_a) and by a BfvCipher of bfv.rs (enc_b); each is        *)
(* decrypted once, in either order, into dec and pt.  enc_3 keeps the pair *)
(* the two ciphertexts were built from, since decrypt consumes self.       *)

\* the parameter sets <Q, T> of the tests
DecryptParams == {[Q |-> Q, T |-> T], [Q |-> Q_t_3, T |-> T_t_3]}

\* c_1: every residue at index 0, the following indices level or rising by one
PhasePolys(A) ==
    {[i \in 1..N |-> Element_new(A, v + (i - 1) * step)] : v \in 0..(A - 1), step \in 0..1}

InitDecrypt ==
    /\ prm \in DecryptParams
    /\ pc = "cipher"
    /\ sk \in KeySamples
    /\ \E c_1 \in PhasePolys(prm.Q),
          c_2 \in {ZeroPoly(prm.Q, N)} \cup UniformSamples(prm.Q) :
          /\ enc_a = [c_1 |-> c_1, c_2 |-> c_2]
          /\ enc_b = [c_1 |-> c_1, c_2 |-> c_2]
          /\ enc_3 = [c_1 |-> c_1, c_2 |-> c_2]
    /\ pk = <<>> /\ m_a = <<>> /\ m_b = <<>>
    /\ pt = <<>> /\ dec = <<>>
    /\ n_adds = 0
    /\ IdleElem /\ IdleRing /\ IdlePasta

\* enc_a.decrypt(sk) of bfv_pke.rs
DecryptPke ==
    /\ pc = "cipher" /\ enc_a # NoCipher
    /\ dec' = pke_decrypt(prm.Q, prm.T, enc_a, sk)
    /\ enc_a' = NoCipher
    /\ pc' = IF enc_b = NoCipher THEN "decrypted" ELSE "cipher"
    /\ UNCHANGED <<prm, sk, pk, m_a, m_b, enc_b, enc_3, pt, elemVars, ringVars, accVars, pastaVars>>

\* enc_b.decrypt(sk) of bfv.rs
DecryptBfv ==
    /\ pc = "cipher" /\ enc_b # NoCipher
    /\ pt' = bfv_decrypt(prm.Q, prm.T, enc_b, sk)
    /\ enc_b' = NoCipher
    /\ pc' = IF enc_a = NoCipher THEN "decrypted" ELSE "cipher"
    /\ UNCHANGED <<prm, sk, pk, m_a, m_b, enc_a, enc_3, dec, elemVars, ringVars, accVars, pastaVars>>

NextDecrypt == DecryptPke \/ DecryptBfv

SpecDecrypt == InitDecrypt /\ [][NextDecrypt]_vars

\* the documented rule at one coefficient: floor((d + floor(Delta/2)) / Delta) mod T
RoundRule(d) == ((d + Delta \div 2) \div Delta) % prm.T

\* both decrypts follow the rule on d = c_1 + c_2 * lift(sk), and agree
FollowsRule ==
    /\ dec # <<>> => \A i \in 1..N : dec[i] = RoundRule(Phase(enc_3)[i])
    /\ pt # <<>> => \A i \in 1..N : pt[i] = RoundRule(Phase(enc_3)[i])
    /\ pc = "decrypted" => dec = pt

\* the coefficients at d = mid decode to 1, the ones at mid - 1 to 0
SplitsAt(mid) ==
    dec # <<>> =>
        \A i \in 1..N :
            /\ Phase(enc_3)[i] = mid => dec[i] = 1
            /\ Phase(enc_3)[i] = mid - 1 => dec[i] = 0

\* C18 as stated: decrypt is floor((d_i + floor(Delta/2)) / Delta) mod T, a
\* coefficient at the midpoint floor(Delta/2) decodes to 1 and one just below
\* it to 0, and bfv.rs and bfv_pke.rs return the same plaintext.
C18_RoundingRule == FollowsRule /\ SplitsAt(Delta \div 2)

\* C18 amended: the same, with the first coefficient decoding to 1 at
\* Delta - floor(Delta/2), which is floor(Delta/2) only for even Delta.
C18_RoundingRuleCeil == FollowsRule /\ SplitsAt(Delta - Delta \div 2)

\* C18 witness: Q = 128, T = 3, Delta = 43, d = [21, 22, 23, 24] decrypted by
\* both implementations to [0, 1, 1, 1]
C18_Witness ==
    /\ pc = "decrypted" /\ prm.Q = Q_t_3 /\ prm.T = T_t_3
    /\ Phase(enc_3) = <<21, 22, 23, 24>>
    /\ dec = <<0, 1, 1, 1>> /\ pt = <<0, 1, 1, 1>>

---------------------------------------------------------------------------
(* Symmetric-key sum machine (bfv_ske.rs): keygen, encrypt, then any       *)
(* number of "encrypt a fresh ciphertext and add it to the sum", then      *)
(* decrypt.  enc_3 is the running sum, enc_b the fresh ciphertext, n_adds  *)
(* the additions made; decrypt consumes the sum and enc_a keeps the pair   *)
(* (c_1, c_2) it was called on.                                            *)

\* how many additions the sum machine makes at most
MaxAdds == 7

SumKeygen ==
    /\ pc = "start"
    /\ sk' \in KeySamples
    /\ pc' = "keyed"
    /\ UNCHANGED <<prm, pk, m_a, m_b, enc_a, enc_b, enc_3, pt, dec, elemVars, ringVars, accVars, pastaVars>>

\* the sum starts as bfv.encrypt(m, sk)
SumEncryptFirst ==
    /\ pc = "keyed"
    /\ \E m \in MsgSamples(prm.T), a \in UniformSamples(prm.Q), e \in ErrSamples(prm.Q) :
          /\ m_a' = m
          /\ enc_3' = ske_encrypt(prm.Q, prm.T, m, sk, a, e)
    /\ pc' = "added"
    /\ UNCHANGED <<prm, sk, pk, m_b, enc_a, enc_b, pt, dec, elemVars, ringVars, accVars, pastaVars>>

\* a fresh bfv.encrypt(m, sk) under the same sk
SumEncryptNext ==
    /\ pc = "added" /\ n_adds < MaxAdds
    /\ \E m \in MsgSamples(prm.T), a \in UniformSamples(prm.Q), e \in ErrSamples(prm.Q) :
          /\ m_b' = m
          /\ enc_b' = ske_encrypt(prm.Q, prm.T, m, sk, a, e)
    /\ pc' = "enc_b"
    /\ UNCHANGED <<prm, sk, pk, m_a, enc_a, enc_3, pt, dec, elemVars, ringVars, accVars, pastaVars>>

\* sum = sum + fresh
SumAdd ==
    /\ pc = "enc_b"
    /\ enc_3' = cipher_add(prm.Q, enc_3, enc_b)
    /\ enc_b' = NoCipher
    /\ n_adds' = n_adds + 1
    /\ pc' = "added"
    /\ UNCHANGED <<prm, sk, pk, m_a, m_b, enc_a, pt, dec, elemVars, ringVars, pastaVars>>

\* sum.decrypt(sk)
SumDecrypt ==
    /\ pc = "added"
    /\ dec' = ske_decrypt(prm.Q, enc_3, sk)
    /\ enc_a' = enc_3
    /\ enc_3' = NoCipher
    /\ pc' = "dec_sum"
    /\ UNCHANGED <<prm, sk, pk, m_a, m_b, enc_b, pt, elemVars, ringVars, accVars, pastaVars>>

NextSkeSum ==
    \/ SumKeygen \/ SumEncryptFirst \/ SumEncryptNext \/ SumAdd \/ SumDecrypt

SpecSkeSum == InitBfv(Q, T) /\ [][NextSkeSum]_vars

\* C19: for N = 4, Q = 32, T = 2 the symmetric decrypt of a sum of fresh
\* ciphertexts returns at every index floor((d_i + Delta/2) / Delta) mod T,
\* d = c_1 + c_2 * lift(sk), the plaintext the public-key decrypt formula
\* returns for the same (c_1, c_2, sk).
C19_SkeFollowsRule ==
    (pc = "dec_sum" /\ pk = <<>> /\ enc_3 = NoCipher) =>
        /\ \A i \in 1..N :
              dec[i] = ((Phase(enc_a)[i] + Delta \div 2) \div Delta) % prm.T
        /\ dec = pke_decrypt(prm.Q, prm.T, enc_a, sk)

---------------------------------------------------------------------------
(* Pasta (pasta_plain.rs).  A block has PASTA_T words.  The XOF reader is  *)
(* the record [xof, seed, pos]: seed the bytes absorbed (<<>> or <<nonce,  *)
(* block_counter>>), pos the number of 8-byte words read so far, xof the   *)
(* function standing for SHAKE128, fixed over a run.  Every method that    *)
(* takes &mut self returns the instance next to its result.                *)

\* words per block (128 in the code)
PASTA_T == 2

\* round count
PASTA_R == 3

NONCE == 123456789

\* the words read from the XOF are below XofRange (2^64 in the code)
XofRange == 251

\* mul_mod: the product is taken in u128
mul_mod(a, b, p) == (a * b) % p

\* add_mod: for a, b < p < 2^63 wrapping_add does not wrap
add_mod(a, b, p) == LET sum == a + b IN IF sum >= p THEN sum - p ELSE sum

\* 64 - modulus.leading_zeros()
BitLength(modulus) == IF modulus = 0 THEN 0 ELSE ilog2(modulus) + 1

\* Shake128::default().finalize_xof(): nothing absorbed
DefaultReader(xof) == [xof |-> xof, seed |-> <<>>, pos |-> 0]

\* Pasta::new
Pasta_new(key, modulus, xof) ==
    [key |-> key, p |-> modulus, mask |-> Pow2(BitLength(modulus)) - 1,
     shake |-> DefaultReader(xof)]

\* the word at position pos of the stream of a seed: the stream starts at a
\* word set by the seed and advances by the stride xof, so that every
\* candidate value comes up again and again
XofWord(shake) ==
    LET start == IF shake.seed = <<>> THEN 1
                 ELSE (shake.seed[1] % XofRange) + 5 * shake.seed[2] + 3
    IN  (start + shake.xof * shake.pos) % XofRange

\* mutant: the reader is left where the previous call stopped
init_shake_stale(self, nonce, block_counter) == self

\* Pasta::init_shake
init_shake(self, nonce, block_counter) ==
    [self EXCEPT !.shake = [xof |-> self.shake.xof,
                            seed |-> <<nonce, block_counter>>, pos |-> 0]]

\* the one element of a singleton.  An intermediate result is bound as
\* x \in {e}, so that it is computed once however often it is used.
the(S) == CHOOSE v \in S : TRUE

\* self.shake.read(&mut buf): the reader moves on by one word
shake_read(self) == [self EXCEPT !.shake.pos = @ + 1]

\* u64::from_be_bytes(buf) & self.mask, the mask being 2^bits - 1
candidate(self) == XofWord(self.shake) % (self.mask + 1)

\* Pasta::rand_field_element: [self, out]
RECURSIVE rand_field_element(_, _)
rand_field_element(self, allow_zero) ==
    the({IF (~allow_zero /\ cand = 0) \/ cand >= self.p
         THEN rand_field_element(read, allow_zero)
         ELSE [self |-> read, out |-> cand] :
            cand \in {candidate(self)}, read \in {shake_read(self)}})

\* one more element of rand_vec
rand_vec_push(vec, allow_zero) ==
    the({[self |-> elem.self, out |-> Append(vec.out, elem.out)] :
            elem \in {rand_field_element(vec.self, allow_zero)}})

\* Pasta::rand_vec from the elements drawn so far: [self, out]
RECURSIVE rand_vec_from(_, _)
rand_vec_from(vec, allow_zero) ==
    IF Len(vec.out) = PASTA_T THEN vec
    ELSE the({rand_vec_from(next, allow_zero) :
                 next \in {rand_vec_push(vec, allow_zero)}})

rand_vec(self, allow_zero) ==
    the({rand_vec_from(start, allow_zero) :
            start \in {[self |-> self, out |-> <<>>]}})

\* Pasta::calculate_row
calculate_row(p, prev_row, first_row) ==
    [j \in 1..PASTA_T |->
        LET tmp == (first_row[j] * prev_row[PASTA_T]) % p
        IN  IF j # 1 THEN (tmp + prev_row[j - 1]) % p ELSE tmp]

\* the rows pushed after the first
RECURSIVE push_rows(_, _)
push_rows(p, mat) ==
    IF Len(mat) = PASTA_T THEN mat
    ELSE the({push_rows(p, next) :
                 next \in {Append(mat, calculate_row(p, mat[Len(mat)], mat[1]))}})

\* Pasta::rand_matrix: [self, out]
rand_matrix(self) ==
    the({[self |-> first_row.self, out |-> push_rows(self.p, <<first_row.out>>)] :
            first_row \in {rand_vec(self, FALSE)}})

\* new[i] of linear_layer after the columns 1..j
RECURSIVE dot(_, _, _, _)
dot(p, row, state, j) ==
    IF j = 0 THEN 0
    ELSE add_mod(dot(p, row, state, j - 1), mul_mod(row[j], state[j], p), p)

\* linear_layer after rand_matrix: the product, then the round constant rc
affine(mat, state, p) ==
    the({[self |-> rc.self,
          out  |-> [i \in 1..PASTA_T |->
                       add_mod(dot(p, mat.out[i], state, PASTA_T), rc.out[i], p)]] :
            rc \in {rand_vec(mat.self, TRUE)}})

\* Pasta::linear_layer: [self, out]
linear_layer(self, state) ==
    the({affine(mat, state, self.p) : mat \in {rand_matrix(self)}})

\* Pasta::mix: <<l, r>>
mix(p, l, r) ==
    the({<< [i \in 1..PASTA_T |-> add_mod(l[i], sum[i], p)],
            [i \in 1..PASTA_T |-> add_mod(r[i], sum[i], p)] >> :
            sum \in {[i \in 1..PASTA_T |-> add_mod(l[i], r[i], p)]}})

\* Pasta::sbox_cube
sbox_cube(state, p) ==
    [i \in 1..PASTA_T |-> mul_mod(mul_mod(state[i], state[i], p), state[i], p)]

\* Pasta::sbox_feistel
sbox_feistel(state, p) ==
    [i \in 1..PASTA_T |->
        IF i = 1 THEN state[i]
        ELSE add_mod(state[i], mul_mod(state[i - 1], state[i - 1], p), p)]

\* mix(l, r) after the two linear layers ll, lr: [self, l, r]
mixed_layers(ll, lr, p) ==
    the({[self |-> lr.self, l |-> mixed[1], r |-> mixed[2]] :
            mixed \in {mix(p, ll.out, lr.out)}})

\* linear_layer(r) after linear_layer(l) = ll, then mix
right_layer(ll, r, p) ==
    the({mixed_layers(ll, lr, p) : lr \in {linear_layer(ll.self, r)}})

\* linear_layer(l); linear_layer(r); mix(l, r): [self, l, r]
layers_and_mix(self, l, r) ==
    the({right_layer(ll, r, self.p) : ll \in {linear_layer(self, l)}})

\* Pasta::round: [self, l, r]
round(self, l, r, r_idx) ==
    the({IF r_idx = PASTA_R - 1
         THEN [self |-> lin.self, l |-> sbox_cube(lin.l, self.p),
                                  r |-> sbox_cube(lin.r, self.p)]
         ELSE [self |-> lin.self, l |-> sbox_feistel(lin.l, self.p),
                                  r |-> sbox_feistel(lin.r, self.p)] :
            lin \in {layers_and_mix(self, l, r)}})

\* one pass of the loop of keystream, st the [self, l, r, r_idx] so far
next_round(st) ==
    the({[self |-> after.self, l |-> after.l, r |-> after.r, r_idx |-> st.r_idx + 1] :
            after \in {round(st.self, st.l, st.r, st.r_idx)}})

\* for r_idx in 0..PASTA_R of keystream: [self, l, r, r_idx]
RECURSIVE rounds(_)
rounds(st) ==
    IF st.r_idx = PASTA_R THEN st
    ELSE the({rounds(next) : next \in {next_round(st)}})

\* keystream after its loop: two linear layers and mix, the left half returned
last_layers(after) ==
    the({[self |-> last.self, out |-> last.l] :
            last \in {layers_and_mix(after.self, after.l, after.r)}})

\* Pasta::keystream: [self, out]
keystream(self, nonce, block_counter) ==
    the({last_layers(after) :
            after \in {rounds([self  |-> init_shake(self, nonce, block_counter),
                               l     |-> SubSeq(self.key, 1, PASTA_T),
                               r     |-> SubSeq(self.key, PASTA_T + 1, 2 * PASTA_T),
                               r_idx |-> 0])}})

\* the block b (from 0) of Pasta::encrypt: *w = add_mod(*w, ks[i], p)
encrypt_block(out, ks, b, p) ==
    [k \in 1..Len(out) |->
        IF k > b * PASTA_T /\ k <= (b + 1) * PASTA_T
        THEN add_mod(out[k], ks[k - b * PASTA_T], p)
        ELSE out[k]]

\* one pass of the loop of Pasta::encrypt, st the [self, out, b] so far
encrypt_step(st) ==
    the({[self |-> ks.self, b |-> st.b + 1,
          out |-> encrypt_block(st.out, ks.out, st.b, st.self.p)] :
            ks \in {keystream(st.self, NONCE, st.b)}})

\* for b in 0..n_blocks of Pasta::encrypt: [self, out, b]
RECURSIVE encrypt_blocks(_, _)
encrypt_blocks(st, n_blocks) ==
    IF st.b = n_blocks THEN st
    ELSE the({encrypt_blocks(next, n_blocks) : next \in {encrypt_step(st)}})

\* Pasta::encrypt: [self, out, b]
Pasta_encrypt(self, plain) ==
    encrypt_blocks([self |-> self, out |-> plain, b |-> 0],
                   (Len(plain) + PASTA_T - 1) \div PASTA_T)

\* the block b (from 0) of Pasta::decrypt: v + p if v < ks[i], then v - ks[i]
decrypt_block(out, ks, b, p) ==
    [k \in 1..Len(out) |->
        IF k > b * PASTA_T /\ k <= (b + 1) * PASTA_T
        THEN LET v == IF out[k] < ks[k - b * PASTA_T] THEN out[k] + p ELSE out[k]
             IN  v - ks[k - b * PASTA_T]
        ELSE out[k]]

\* one pass of the loop of Pasta::decrypt, st the [self, out, b] so far
decrypt_step(st) ==
    the({[self |-> ks.self, b |-> st.b + 1,
          out |-> decrypt_block(st.out, ks.out, st.b, st.self.p)] :
            ks \in {keystream(st.self, NONCE, st.b)}})

\* for b in 0..n_blocks of Pasta::decrypt: [self, out, b]
RECURSIVE decrypt_blocks(_, _)
decrypt_blocks(st, n_blocks) ==
    IF st.b = n_blocks THEN st
    ELSE the({decrypt_blocks(next, n_blocks) : next \in {decrypt_step(st)}})

\* Pasta::decrypt: [self, out, b]
Pasta_decrypt(self, cipher) ==
    decrypt_blocks([self |-> self, out |-> cipher, b |-> 0],
                   (Len(cipher) + PASTA_T - 1) \div PASTA_T)

---------------------------------------------------------------------------
(* Pasta machine: new, then encrypt(plaintext) and decrypt(ciphertext) on  *)
(* the same instance (tests::roundtrip), with keystream calls of any nonce *)
(* and counter before, between and after them.                             *)

\* the moduli the instances are built with
PastaModuli == {2, 3, 17}

\* the functions standing for SHAKE128, each the stride of its stream
XofFamily == {7, 11}

\* keys of 2 * PASTA_T words: zero, rising, all p - 1, and words above p
PastaKeys(p) ==
    {[i \in 1..(2 * PASTA_T) |-> 0],
     [i \in 1..(2 * PASTA_T) |-> i % p],
     [i \in 1..(2 * PASTA_T) |-> p - 1],
     [i \in 1..(2 * PASTA_T) |-> p + i]}

\* plaintexts of 0 .. 2 * PASTA_T + 1 words (none, less than a block, whole
\* blocks, a partial last block): all zero, p - 1 at every other word, rising
PastaPlaintexts(p) ==
    {[k \in 1..len |-> IF k % 2 = 1 THEN odd ELSE 0] :
        len \in 0..(2 * PASTA_T + 1), odd \in {0, p - 1}}
    \cup {[k \in 1..len |-> k % p] : len \in 0..(2 * PASTA_T + 1)}

\* the (nonce, block_counter) of the extra keystream calls
ExtraSeeds == {<<NONCE, 0>>, <<NONCE, 1>>, <<NONCE + 1, 0>>}

InitPasta ==
    /\ \E p \in PastaModuli, xof \in XofFamily :
          /\ \E key \in PastaKeys(p) : pasta = Pasta_new(key, p, xof)
          /\ plaintext \in PastaPlaintexts(p)
    /\ ciphertext = <<>> /\ decrypted = <<>> /\ calls = "new"
    /\ IdleElem /\ IdleRing /\ IdleBfv

\* pasta.keystream(nonce, block_counter), the block dropped
Keystream ==
    /\ calls \in {"new", "encrypted", "decrypted"}
    /\ \E seed \in ExtraSeeds :
          \E ks \in {keystream(pasta, seed[1], seed[2])} : pasta' = ks.self
    /\ UNCHANGED <<plaintext, ciphertext, decrypted, calls, elemVars, ringVars, bfvVars, accVars>>

\* ciphertext = pasta.encrypt(&plaintext)
Encrypt ==
    /\ calls = "new"
    /\ \E ct \in {Pasta_encrypt(pasta, plaintext)} :
          pasta' = ct.self /\ ciphertext' = ct.out
    /\ calls' = "encrypted"
    /\ UNCHANGED <<plaintext, decrypted, elemVars, ringVars, bfvVars, accVars>>

\* decrypted = pasta.decrypt(&ciphertext)
Decrypt ==
    /\ calls = "encrypted"
    /\ \E dt \in {Pasta_decrypt(pasta, ciphertext)} :
          pasta' = dt.self /\ decrypted' = dt.out
    /\ calls' = "decrypted"
    /\ UNCHANGED <<plaintext, ciphertext, elemVars, ringVars, bfvVars, accVars>>

NextPasta == Keystream \/ Encrypt \/ Decrypt

SpecPasta == InitPasta /\ [][NextPasta]_vars

\* C17: decrypt(encrypt(plain)) == plain on the same instance, every
\* ciphertext word is < p, whatever keystream calls were made before or in
\* between.
C17_PastaRoundTrip ==
    /\ calls \in {"encrypted", "decrypted"} =>
          /\ Len(ciphertext) = Len(plaintext)
          /\ \A k \in 1..Len(ciphertext) : ciphertext[k] \in 0..(pasta.p - 1)
    /\ calls = "decrypted" => decrypted = plaintext

\* C17 witness: two full blocks and a partial one, a key with words above p,
\* the reader re-seeded for block 2 by the decrypt
C17_Witness ==
    /\ calls = "decrypted" /\ pasta.p = 17
    /\ pasta.key = [i \in 1..(2 * PASTA_T) |-> 17 + i]
    /\ Len(plaintext) = 2 * PASTA_T + 1
    /\ plaintext[1] = 16 /\ plaintext[2 * PASTA_T + 1] = 16
    /\ ciphertext # plaintext
    /\ decrypted = plaintext
    /\ pasta.shake.seed = <<NONCE, 2>>

====
